---- MODULE Spec2Model ----
(***************************************************************************)
(* Message admission and per-user dispatch of jarvis (jarvis/main.py,      *)
(* process_message) together with the session registry of ClaudeRunner     *)
(* (jarvis/claude_runner.py).                                              *)
(*                                                                         *)
(* The server is one asyncio event loop: a handler runs without            *)
(* interruption from one await that really suspends to the next.  Each     *)
(* action below is one such uninterrupted stretch of process_message:      *)
(*   Deliver      webhook creates the task; it runs to its first await     *)
(*   DownloadOK / DownloadFail    the media download (audio, image) ends   *)
(*   RunOK / RunFail              the agent subprocess ends                *)
(*   UnsupportedSent / ApologySent    a whatsapp.send_text await ends      *)
(*   SupervisorRestart            systemd starts the process again         *)
(*   Tick                         the wall clock advances                  *)
(* Acquiring a free asyncio.Lock and releasing a lock do not suspend.      *)
(*                                                                         *)
(* Beside the server: the send-message tool the agent process runs         *)
(* (scripts/send_message.py, ToolSend), the parsing stage of               *)
(* ClaudeRunner.run on the output of the agent process (Parse), and the    *)
(* unattended runners cron starts (scripts/proactive_checkin.py and        *)
(* scripts/scheduled_task.py: RunnerStart, RunnerWait, RunnerTimeout,      *)
(* RunnerExit).                                                            *)
(***************************************************************************)
EXTENDS Integers, Sequences, FiniteSets, TLC

\* ------------------------------------------------------------------ bounds
\* clock advances in one behaviour
MaxTicks == 3

\* looks at the clock while an unattended runner waits for its agent
MaxWaits == 4

\* ------------------------------------------------------- program constants
SESSION_TIMEOUT == 1800

\* proactive_checkin.py:96  timeout_seconds = 1800
timeout_seconds == 1800

None == "None"
Users == {"u1", "u2"}
Tokens == {"S1", "S2"}

\* The messages the platform may deliver (and redeliver).  A message id is
\* platform-unique, so its sender and its content are functions of the id.
Msgs == {"A1", "A2", "A3", "A4", "B1", "B2"}

\* ids the platform returns for messages sent out through it
OutIds == {"O1", "O2"}

\* every key of the message archive
Ids == Msgs \cup OutIds

\* the texts sent out: the generic apology (main.py:267), the
\* unsupported-kind notice (main.py:190), a text of the agent's
OutTexts == {"oops", "sorry", "T1"}

From(m) == IF m \in {"A1", "A2", "A3", "A4"} THEN "u1" ELSE "u2"

\* a dispatcher that takes every message for a text
TypeText(m) == "text"

\* message_info["type"]; "sticker" stands for every kind process_message
\* has no branch for (no reaction emoji, audio id, image id or text).
Type(m) ==
  CASE m \in {"A1", "A2", "B1"} -> "text"
    [] m = "A3" -> "image"
    [] m = "A4" -> "audio"
    [] OTHER -> "sticker"

\* message_info.get("message_id") is truthy
HasId(m) == TRUE

\* clock steps: one second, five minutes, and the rest of the timeout
ClockSteps == {1, 300, SESSION_TIMEOUT - 300}

VARIABLES
  proc,         \* "up" | "exited": the server process (os._exit(0) ends it)
  tasks,        \* message -> its process_message tasks that have not returned
  last,         \* what the step just taken was (a delivery and its admission,
                \* an agent reply, an agent failure), for the properties
  processing,   \* _processing_messages
  user_locks,   \* _user_locks: user -> "none" (no Lock object) | "free" | "held"
  pending,      \* _pending_messages: user -> list of entries (<<>>: key absent)
  sessions,     \* data/sessions.json: user -> record
  store,        \* message archive (MessageStore): id -> record
  now,          \* time.time()
  ticks,        \* clock advances so far
  handed,       \* history: times a message was passed to claude.run or queued
  stdout,       \* the standard output of the agent process that exited last
  response,     \* what ClaudeRunner.run made of stdout
  runner        \* the unattended runner script (check-in or scheduled task)

vars == <<proc, tasks, last, processing, user_locks, pending,
          sessions, store, now, ticks, handed, stdout, response, runner>>

\* what the dispatcher's own steps leave alone
aside == <<stdout, response, runner>>

\* ------------------------------------------------------- session registry
NoSession == [session_id |-> None, last_activity |-> 0]

\* the timeout test with >= for >
ExpiredGE(t, last_activity) == t - last_activity >= SESSION_TIMEOUT

\* claude_runner.py:95  time.time() - last_activity > SESSION_TIMEOUT
Expired(t, last_activity) == t - last_activity > SESSION_TIMEOUT

\* ClaudeRunner.get_session_id: the value returned
get_session_id(sess, u, t) ==
  LET sd == sess[u] IN
  IF sd.session_id = None THEN None
  ELSE IF Expired(t, sd.last_activity) THEN None
  ELSE sd.session_id

\* get_session_id that leaves an expired record in the file
get_session_id_file_keep(sess, u, t) == sess

\* ClaudeRunner.get_session_id: the sessions file it leaves
get_session_id_file(sess, u, t) ==
  LET sd == sess[u] IN
  IF sd.session_id # None /\ Expired(t, sd.last_activity)
  THEN [sess EXCEPT ![u] = NoSession]
  ELSE sess

\* update_session that ignores `finished`
update_session_keep(sess, u, sid, finished, t) ==
  [sess EXCEPT ![u] = [session_id |-> sid, last_activity |-> t]]

\* update_session that saves a file holding this user's record only
update_session_alone(sess, u, sid, finished, t) ==
  [v \in Users |->
     IF v # u \/ finished THEN NoSession
     ELSE [session_id |-> sid, last_activity |-> t]]

\* ClaudeRunner.update_session
update_session(sess, u, sid, finished, t) ==
  IF finished
  THEN [sess EXCEPT ![u] = NoSession]
  ELSE [sess EXCEPT ![u] = [session_id |-> sid, last_activity |-> t]]

\* ClaudeRunner.run, lines 200-223: the sessions file after a parsed reply
\* out = [sid, finished, code_changes], resumed being the session id the
\* invocation was started with
SessionsAfterReply(sess, u, out, resumed, t) ==
  LET new_session_id == IF out.sid # None THEN out.sid ELSE resumed IN
  IF new_session_id # None
  THEN update_session(sess, u, new_session_id, out.finished, t)
  ELSE sess

\* what a reply of the agent process that parses can carry
Replies == [sid : Tokens \cup {None}, finished : BOOLEAN, code_changes : BOOLEAN]

\* -------------------------------------------------------- message archive
NotStored == [content |-> None, sender |-> None]

MessageStore_store(st, id, content, sender) ==
  [st EXCEPT ![id] = [content |-> content, sender |-> sender]]

MessageStore_is_processed(st, id) == st[id] # NotStored

\* ------------------------------------------------------------ dispatcher
\* _get_user_lock: the lock map with u's Lock created when missing
get_user_lock(locks, u) ==
  IF locks[u] = "none" THEN [locks EXCEPT ![u] = "free"] ELSE locks

\* a lock test that never sees the lock held
NeverLocked(locks, u) == FALSE

\* one lock for all users
LockedAny(locks, u) == \E v \in Users : locks[v] = "held"

\* main.py:202  lock.locked()
Locked(locks, u) == locks[u] = "held"

\* main.py:207-213  the queue entry of a message
Entry(m, t) ==
  [message |-> m, is_voice |-> (Type(m) = "audio"),
   image_path |-> (Type(m) = "image"), timestamp |-> t]

\* a task's locals: where it is suspended, needs_restart, the batch `queued`
\* of its drained invocation, session_id of ClaudeRunner.run and the
\* --resume argument of the command it built (None: no such argument)
Task(pc) ==
  [pc |-> pc, needs_restart |-> FALSE, queued |-> <<>>, session_id |-> None,
   resume |-> None]

\* a handler that does not return
ReturnNever(tk, m, k) == tk

\* the task map without task k of message m (its handler returned)
Return(tk, m, k) ==
  [tk EXCEPT ![m] = SubSeq(@, 1, k - 1) \o SubSeq(@, k + 1, Len(@))]

\* the task map with a task created for a delivery of m
Create(tk, m, pc) == [tk EXCEPT ![m] = Append(@, Task(pc))]

NoReply == [sid |-> None, finished |-> FALSE, code_changes |-> FALSE]

\* ev: "deliver" (outcome: the admission decision), "downloaded", "reply"
\* (reply: the parsed reply), "fail", and the sends "oops", "sorry", "T1"
\* (ev: the text sent; outcome: the id the platform returned, None when the
\* send failed); msg: the task's message; loaded: the record get_session_id
\* loaded when the step went on to start an invocation
Event(ev, m, outcome, out, loaded) ==
  [ev |-> ev, msg |-> m, outcome |-> outcome, reply |-> out,
   loaded |-> loaded]

NoEvent == Event(None, None, None, NoReply, NoSession)

\* the tasks, <<message, k>>, that have not returned
TaskIds == {mk \in Msgs \X (1..3) : mk[2] <= Len(tasks[mk[1]])}

\* the tasks of user u whose agent subprocess is running
InFlight(u) ==
  {mk \in TaskIds : From(mk[1]) = u /\ tasks[mk[1]][mk[2]].pc = "running"}

\* a finally block that leaves the in-flight set as it is
DiscardNever(pr, m) == pr

\* _processing_messages.discard(incoming_message_id) of the finally block
Discard(pr, m) == IF HasId(m) THEN pr \ {m} ELSE pr

(***************************************************************************)
(* claude.run up to its first await (claude_runner.py:130-172), called by  *)
(* task k of message m, of user u, holding u's lock, on sessions file sess *)
(* and lock map locks, with queued the batch it runs on (<<>> for the      *)
(* task's own message) and restart the needs_restart flag so far.  cli:    *)
(* whether find_claude_cli finds the executable; when it does not, run     *)
(* raises, the exception leaves `async with lock` and the handler awaits   *)
(* the apology.                                                            *)
(***************************************************************************)
\* a combined prompt that lists the entries last to first
combined_prompt_reversed(queued) ==
  [header |-> "[Messages received while you were working]",
   lines |-> [i \in 1..Len(queued) |->
                <<queued[Len(queued) + 1 - i].timestamp,
                  queued[Len(queued) + 1 - i].message>>]]

\* main.py:238-242: combined_prompt for the batch queued: the header, then
\* one line "(timestamp) message" per entry
combined_prompt(queued) ==
  [header |-> "[Messages received while you were working]",
   lines |-> [i \in 1..Len(queued) |->
                <<queued[i].timestamp, queued[i].message>>]]

\* main.py:221-228 and 244-248: the arguments of claude.run for message m,
\* or, when queued is not empty, for the drained batch: message (the texts
\* the prompt lists, in order), is_voice, image_path (the messages whose
\* image file is passed; {} for image_path = None)
claude_run_args(m, queued) ==
  IF queued = <<>>
  THEN [message |-> <<m>>, is_voice |-> (Type(m) = "audio"),
        image_path |-> IF Type(m) = "image" THEN {m} ELSE {}]
  ELSE [message |-> [i \in 1..Len(queued) |-> queued[i].message],
        is_voice |-> FALSE, image_path |-> {}]

\* claude_runner.py:168-169: the --resume argument for session_id
ResumeNever(session_id) == None
ResumeArg(session_id) == session_id

\* claude_runner.py:85-86: session_data, when the call gets that far
Loaded(sess, u, cli) == IF cli THEN sess[u] ELSE NoSession

BeginRun(m, k, tk, sess, locks, queued, restart, cli) ==
  LET u == From(m) IN
  IF cli
  THEN /\ tasks' = [tk EXCEPT ![m][k] =
                      [pc |-> "running", needs_restart |-> restart,
                       queued |-> queued,
                       session_id |-> get_session_id(sess, u, now),
                       resume |-> ResumeArg(get_session_id(sess, u, now))]]
       /\ sessions' = get_session_id_file(sess, u, now)
       /\ user_locks' = [locks EXCEPT ![u] = "held"]
  ELSE /\ tasks' = [tk EXCEPT ![m][k] = Task("apology")]
       /\ sessions' = sess
       /\ user_locks' = [locks EXCEPT ![u] = "free"]

(***************************************************************************)
(* main.py:193-228: task k of m (in tk) has its user_message; pr is the    *)
(* in-flight set after admission.  Store, then lock-or-enqueue.            *)
(***************************************************************************)
StoreAndDispatch(m, k, tk, pr, cli) ==
  LET u == From(m)
      locks == get_user_lock(user_locks, u)
  IN
  /\ store' = IF HasId(m) THEN MessageStore_store(store, m, m, u) ELSE store
  /\ handed' = [handed EXCEPT ![m] = @ + 1]
  /\ IF Locked(locks, u)
     THEN /\ pending' = [pending EXCEPT ![u] = Append(@, Entry(m, now))]
          /\ tasks' = Return(tk, m, k)
          /\ processing' = Discard(pr, m)
          /\ user_locks' = locks
          /\ UNCHANGED sessions
     ELSE /\ BeginRun(m, k, tk, sessions, locks, <<>>, FALSE, cli)
          /\ processing' = pr
          /\ UNCHANGED pending
  /\ UNCHANGED <<proc, now, ticks>>

\* the admission decision without the in-flight check
AdmissionNoInflight(pr, st, m) ==
  IF ~HasId(m) THEN "admitted"
  ELSE IF MessageStore_is_processed(st, m) THEN "dup_processed"
  ELSE "admitted"

\* the admission decision without the archive check
AdmissionNoArchive(pr, st, m) ==
  IF ~HasId(m) THEN "admitted"
  ELSE IF m \in pr THEN "dup_inflight"
  ELSE "admitted"

\* main.py:130-137: the admission decision for a delivery of m
Admission(pr, st, m) ==
  IF ~HasId(m) THEN "admitted"
  ELSE IF m \in pr THEN "dup_inflight"
  ELSE IF MessageStore_is_processed(st, m) THEN "dup_processed"
  ELSE "admitted"

\* main.py:123-191 up to the first await of the message's branch
Deliver(m, cli) ==
  LET k == Len(tasks[m]) + 1
      outcome == Admission(processing, store, m)
      pr == IF HasId(m) THEN processing \cup {m} ELSE processing
  IN
  /\ proc = "up"
  /\ last' = IF outcome # "admitted"
             THEN Event("deliver", None, outcome, NoReply, NoSession)
             ELSE Event("deliver", m, outcome, NoReply,
                        IF Type(m) = "text" /\ ~Locked(user_locks, From(m))
                        THEN Loaded(sessions, From(m), cli) ELSE NoSession)
  /\ IF outcome # "admitted"
     THEN UNCHANGED <<proc, tasks, processing, user_locks, pending, sessions,
                      store, now, ticks, handed>>
     ELSE CASE Type(m) = "text" ->
                 StoreAndDispatch(m, k, Create(tasks, m, "init"), pr, cli)
            [] Type(m) \in {"audio", "image"} ->
                 /\ tasks' = Create(tasks, m, "download")
                 /\ processing' = pr
                 /\ UNCHANGED <<proc, user_locks, pending, sessions, store,
                                now, ticks, handed>>
            [] OTHER ->
                 /\ tasks' = Create(tasks, m, "unsupported")
                 /\ processing' = pr
                 /\ UNCHANGED <<proc, user_locks, pending, sessions, store,
                                now, ticks, handed>>
  /\ UNCHANGED aside

\* main.py:165-184: download (and transcription) succeeded
DownloadOK(m, k, cli) ==
  /\ proc = "up"
  /\ tasks[m][k].pc = "download"
  /\ StoreAndDispatch(m, k, tasks, processing, cli)
  /\ last' = Event("downloaded", m, None, NoReply,
                   IF ~Locked(user_locks, From(m))
                   THEN Loaded(sessions, From(m), cli) ELSE NoSession)
  /\ UNCHANGED aside

\* main.py:167/173 raises: except block, the apology is being sent
DownloadFail(m, k) ==
  /\ proc = "up"
  /\ tasks[m][k].pc = "download"
  /\ tasks' = [tasks EXCEPT ![m][k] = Task("apology")]
  /\ last' = NoEvent
  /\ UNCHANGED <<proc, processing, user_locks, pending,
                 sessions, store, now, ticks, handed>>
  /\ UNCHANGED aside

\* the platform has not handed out id before, as far as the archive shows
Fresh(id) == store[id] = NotStored

\* main.py:190-191 then finally: the unsupported-kind notice was sent, the
\* platform returned id for it
UnsupportedSent(m, k, id) ==
  /\ proc = "up"
  /\ tasks[m][k].pc = "unsupported"
  /\ Fresh(id)
  /\ tasks' = Return(tasks, m, k)
  /\ processing' = Discard(processing, m)
  /\ last' = Event("sorry", m, id, NoReply, NoSession)
  /\ UNCHANGED <<proc, user_locks, pending, sessions,
                 store, now, ticks, handed>>
  /\ UNCHANGED aside

\* main.py:190 raises: except block, the generic apology is being sent
UnsupportedFail(m, k) ==
  /\ proc = "up"
  /\ tasks[m][k].pc = "unsupported"
  /\ tasks' = [tasks EXCEPT ![m][k] = Task("apology")]
  /\ last' = NoEvent
  /\ UNCHANGED <<proc, processing, user_locks, pending,
                 sessions, store, now, ticks, handed>>
  /\ UNCHANGED aside

\* main.py:266-276: the apology send ended: sent, the platform returning
\* id for it, or (id = None) failed and logged
ApologySent(m, k, id) ==
  /\ proc = "up"
  /\ tasks[m][k].pc = "apology"
  /\ id # None => Fresh(id)
  /\ tasks' = Return(tasks, m, k)
  /\ processing' = Discard(processing, m)
  /\ last' = Event("oops", m, id, NoReply, NoSession)
  /\ UNCHANGED <<proc, user_locks, pending, sessions,
                 store, now, ticks, handed>>
  /\ UNCHANGED aside

(***************************************************************************)
(* The agent subprocess of task k of m exited 0 with a reply that parses   *)
(* (claude_runner.py:184-229), then main.py:230-261 and the finally block: *)
(* session update, drain check, next drained invocation or restart exit or *)
(* release.                                                                *)
(***************************************************************************)
RunOK(m, k, out, cli) ==
  LET u == From(m)
      me == tasks[m][k]
      sess == SessionsAfterReply(sessions, u, out, me.session_id, now)
      restart == me.needs_restart \/ out.code_changes
  IN
  /\ proc = "up"
  /\ me.pc = "running"
  /\ IF pending[u] # <<>>
     THEN /\ pending' = [pending EXCEPT ![u] = <<>>]
          /\ BeginRun(m, k, tasks, sess, user_locks, pending[u], restart, cli)
          /\ UNCHANGED <<proc, processing>>
     ELSE IF restart
     THEN /\ proc' = "exited"
          /\ tasks' = [tasks EXCEPT ![m][k] = Task("exit")]
          /\ sessions' = sess
          /\ UNCHANGED <<processing, user_locks, pending>>
     ELSE /\ tasks' = Return(tasks, m, k)
          /\ sessions' = sess
          /\ user_locks' = [user_locks EXCEPT ![u] = "free"]
          /\ processing' = Discard(processing, m)
          /\ UNCHANGED <<proc, pending>>
  /\ last' = Event("reply", m, None, out,
                   IF pending[u] # <<>> THEN Loaded(sess, u, cli)
                   ELSE NoSession)
  /\ UNCHANGED <<store, now, ticks, handed>>
  /\ UNCHANGED aside

\* a handler that, when the agent run fails, leaves the invocation in place
\* to be tried again
RunFailRetry(m, k) ==
  /\ proc = "up"
  /\ tasks[m][k].pc = "running"
  /\ last' = Event("fail", m, None, NoReply, NoSession)
  /\ UNCHANGED <<proc, tasks, processing, user_locks, pending, sessions,
                 store, now, ticks, handed>>
  /\ UNCHANGED aside

\* a failed run that leaves the user's lock held
RunFailHolding(m, k) ==
  /\ proc = "up"
  /\ tasks[m][k].pc = "running"
  /\ tasks' = [tasks EXCEPT ![m][k] = Task("apology")]
  /\ last' = Event("fail", m, None, NoReply, NoSession)
  /\ UNCHANGED <<proc, processing, user_locks, pending, sessions, store,
                 now, ticks, handed>>
  /\ UNCHANGED aside

\* a failed run that still refreshes the session it was resumed from
RunFailTouch(m, k) ==
  LET u == From(m) IN
  /\ proc = "up"
  /\ tasks[m][k].pc = "running"
  /\ tasks' = [tasks EXCEPT ![m][k] = Task("apology")]
  /\ user_locks' = [user_locks EXCEPT ![u] = "free"]
  /\ sessions' = IF tasks[m][k].session_id # None
                 THEN update_session(sessions, u, tasks[m][k].session_id,
                                     FALSE, now)
                 ELSE sessions
  /\ last' = Event("fail", m, None, NoReply, NoSession)
  /\ UNCHANGED <<proc, processing, pending, store, now, ticks, handed>>
  /\ UNCHANGED aside

\* claude_runner.py:186-198 raises (non-zero exit, output that is not JSON):
\* the exception leaves `async with lock`; except block, apology being sent
RunFail(m, k) ==
  LET u == From(m) IN
  /\ proc = "up"
  /\ tasks[m][k].pc = "running"
  /\ tasks' = [tasks EXCEPT ![m][k] = Task("apology")]
  /\ user_locks' = [user_locks EXCEPT ![u] = "free"]
  /\ last' = Event("fail", m, None, NoReply, NoSession)
  /\ UNCHANGED <<proc, processing, pending, sessions, store,
                 now, ticks, handed>>
  /\ UNCHANGED aside

\* scripts/send_message.py send_text, run by the agent process of task k of
\* m (JARVIS_CHAT_RECIPIENT is the task's user): the text was sent, the
\* platform returned id, and the script stored it under that id
ToolSend(m, k, text, id) ==
  /\ proc = "up"
  /\ tasks[m][k].pc = "running"
  /\ Fresh(id)
  /\ store' = MessageStore_store(store, id, text, "jarvis")
  /\ last' = Event(text, m, id, NoReply, NoSession)
  /\ UNCHANGED <<proc, tasks, processing, user_locks, pending, sessions,
                 now, ticks, handed>>
  /\ UNCHANGED aside

\* the supervisor starts the process again: module globals are fresh, the
\* files (sessions.json, the message archive) are as they were left
SupervisorRestart ==
  /\ proc = "exited"
  /\ proc' = "up"
  /\ tasks' = [m \in Msgs |-> <<>>]
  /\ processing' = {}
  /\ user_locks' = [u \in Users |-> "none"]
  /\ pending' = [u \in Users |-> <<>>]
  /\ last' = NoEvent
  /\ UNCHANGED <<sessions, store, now, ticks, handed>>
  /\ UNCHANGED aside

\* time.time() advances by d seconds
Tick(d) ==
  /\ ticks < MaxTicks
  /\ ticks' = ticks + 1
  /\ now' = now + d
  /\ last' = NoEvent
  /\ UNCHANGED <<proc, tasks, processing, user_locks, pending, sessions,
                 store, handed>>
  /\ UNCHANGED aside

\* ------------------------------------------------ agent output and parsing
Absent == "absent"

\* a boolean field of a JSON object: missing, true or false
Fields == {Absent, "true", "false"}

(***************************************************************************)
(* A JSON value in which the structured result may sit.  kind is           *)
(*   "absent"   the key is missing (dict.get gives None)                   *)
(*   "object"   an object with the two fields (each may be missing)        *)
(*   "empty"    the string ""                                              *)
(*   "text"     a string that is no JSON document                          *)
(*   "encoded"  a string holding the JSON text of an object with the two   *)
(*              fields                                                     *)
(*   "scalar"   a string holding the JSON text of a value that is no       *)
(*              object (a number, null)                                    *)
(* and, out of json.loads only, "number" (the decoded scalar) and          *)
(* "JSONDecodeError".                                                      *)
(***************************************************************************)
Value(kind, cf, cc) ==
  [kind |-> kind, conversation_finished |-> cf, code_changes |-> cc]

NoValue == Value("absent", Absent, Absent)

Payloads == {Value("object", cf, cc) : cf \in Fields, cc \in Fields}

\* json.dumps of a payload
json_dumps(p) == Value("encoded", p.conversation_finished, p.code_changes)

\* json.loads that hands the string back undecoded
json_loads_raw(v) == v

\* json.loads of a string value
json_loads(v) ==
  CASE v.kind = "encoded" ->
         Value("object", v.conversation_finished, v.code_changes)
    [] v.kind = "scalar" -> Value("number", Absent, Absent)
    [] OTHER -> Value("JSONDecodeError", Absent, Absent)

\* isinstance(v, str)
IsStr(v) == v.kind \in {"empty", "text", "encoded", "scalar"}

\* the truth value Python gives v in `a or b`: None, "" and {} are false
Truthy(v) ==
  CASE v.kind \in {"absent", "empty"} -> FALSE
    [] v.kind = "object" ->
         v.conversation_finished # Absent \/ v.code_changes # Absent
    [] OTHER -> TRUE

(***************************************************************************)
(* What an agent process writes to standard output.  kind is "none" (no    *)
(* process has exited), "text" (not JSON), "array" (JSON, but no object)   *)
(* or "object": the envelope, with its session_id, structured_output and   *)
(* result keys and the two fields inline.                                  *)
(***************************************************************************)
Output(kind, sid, so, res, cf, cc) ==
  [kind |-> kind, session_id |-> sid, structured_output |-> so,
   result |-> res, conversation_finished |-> cf, code_changes |-> cc]

NoOutput == Output("none", None, NoValue, NoValue, Absent, Absent)
NotJson == Output("text", None, NoValue, NoValue, Absent, Absent)
JsonArray == Output("array", None, NoValue, NoValue, Absent, Absent)

\* the three envelope shapes of a payload p
Inline(p, sid) ==
  Output("object", sid, NoValue, NoValue,
         p.conversation_finished, p.code_changes)
Structured(p, sid) == Output("object", sid, p, NoValue, Absent, Absent)
ResultString(p, sid) ==
  Output("object", sid, NoValue, json_dumps(p), Absent, Absent)

\* the strings a result key may hold
ResultValues ==
  {NoValue, Value("empty", Absent, Absent), Value("text", Absent, Absent),
   Value("scalar", Absent, Absent)} \cup {json_dumps(p) : p \in Payloads}

\* the outputs of an agent process that exited
Outputs ==
  {NotJson, JsonArray} \cup
  {Output("object", sid, so, res, cf, cc) :
     sid \in {None, "S1"}, so \in {NoValue} \cup Payloads,
     res \in ResultValues, cf \in Fields, cc \in Fields}

\* the envelope as the dict `output`, read for the two fields
AsResult(output) ==
  Value("object", output.conversation_finished, output.code_changes)

\* claude_runner.py:204
\*   output.get("structured_output") or output.get("result") or output
PickResult(output) ==
  IF Truthy(output.structured_output) THEN output.structured_output
  ELSE IF Truthy(output.result) THEN output.result
  ELSE AsResult(output)

\* claude_runner.py:205-212: a string result is decoded; "" and a string
\* that is no JSON become {"conversation_finished": False}
DecodeResult(result) ==
  IF ~IsStr(result) THEN result
  ELSE IF result.kind = "empty" THEN Value("object", "false", Absent)
  ELSE IF json_loads(result).kind = "JSONDecodeError"
       THEN Value("object", "false", Absent)
  ELSE json_loads(result)

\* result.get(key, True)
GetOrTrue(field) == IF field = Absent THEN TRUE ELSE field = "true"

\* claude_runner.py:215-216  result.get(key, False)
GetOrFalse(field) == IF field = Absent THEN FALSE ELSE field = "true"

\* the outcome of ClaudeRunner.run: a ClaudeResponse (raised = None) or the
\* exception that left it; "pending" while nothing was parsed
Response(raised, cf, cc, sid) ==
  [raised |-> raised, conversation_finished |-> cf, code_changes |-> cc,
   session_id |-> sid]

NoResponse == Response("pending", FALSE, FALSE, None)

\* claude_runner.py:193-219 on the output of a process that exited 0,
\* started without a session to resume
ParseOutput(raw) ==
  CASE raw.kind = "text" -> Response("RuntimeError", FALSE, FALSE, None)
    [] raw.kind = "array" -> Response("AttributeError", FALSE, FALSE, None)
    [] OTHER ->
         LET result == DecodeResult(PickResult(raw)) IN
         IF result.kind # "object"
         THEN Response("AttributeError", FALSE, FALSE, None)
         ELSE Response(None, GetOrFalse(result.conversation_finished),
                       GetOrFalse(result.code_changes), raw.session_id)

\* ClaudeRunner.run from the exit of the agent process on: stdout is parsed
Parse ==
  /\ stdout.kind # "none"
  /\ response = NoResponse
  /\ response' = ParseOutput(stdout)
  /\ UNCHANGED <<proc, tasks, last, processing, user_locks, pending,
                 sessions, store, now, ticks, handed, stdout, runner>>

\* ------------------------------------------------- unattended runners
\* scripts/proactive_checkin.py (script "checkin") and
\* scripts/scheduled_task.py (script "task"), each run by cron as a process
\* of its own that spawns one agent process and waits for it.
Scripts == {"checkin", "task"}

\* exit codes of the agent process
ExitCodes == {0, 1}

\* how long the agent can go on between two looks at the clock
WaitSteps == {600, 1200}

\* what the script ends with: a result dict (conversation_finished is what
\* result.get("conversation_finished") gives main), an exception, or the
\* forced end after the timeout
RunnerResult(how, cf) == [how |-> how, conversation_finished |-> cf]

NoResult == RunnerResult(None, FALSE)

RunnerIdle ==
  [script |-> None, pc |-> "idle", elapsed |-> 0, waits |-> 0,
   result |-> NoResult]

\* the script waits with asyncio.wait_for(process.communicate(), timeout):
\* proactive_checkin.py:111-113 does, scheduled_task.py:89 awaits
\* process.communicate() bare
HasDeadline(script) == script = "checkin"

\* the wait_for timer is due
TimeoutDue(r) == HasDeadline(r.script) /\ r.elapsed >= timeout_seconds

\* cron starts the script; it spawns the agent process and awaits it
RunnerStart(script) ==
  /\ runner.pc = "idle"
  /\ runner' = [RunnerIdle EXCEPT !.script = script, !.pc = "waiting"]
  /\ UNCHANGED <<proc, tasks, last, processing, user_locks, pending,
                 sessions, store, now, ticks, handed, stdout, response>>

\* the agent process runs on for d seconds; a wait_for timer fires once
\* timeout_seconds have passed, so a runner that has one is not found
\* waiting later than that
RunnerWait(d) ==
  /\ runner.pc = "waiting"
  /\ runner.waits < MaxWaits
  /\ ~TimeoutDue(runner)
  /\ runner' =
       [runner EXCEPT
          !.waits = @ + 1,
          !.elapsed = IF HasDeadline(runner.script)
                         /\ @ + d > timeout_seconds
                      THEN timeout_seconds ELSE @ + d]
  /\ UNCHANGED <<proc, tasks, last, processing, user_locks, pending,
                 sessions, store, now, ticks, handed, stdout, response>>

\* proactive_checkin.py:114-118: TimeoutError, the process is killed
RunnerTimeout ==
  /\ runner.pc = "waiting"
  /\ TimeoutDue(runner)
  /\ runner' = [runner EXCEPT !.pc = "done",
                              !.result = RunnerResult("killed", TRUE)]
  /\ UNCHANGED <<proc, tasks, last, processing, user_locks, pending,
                 sessions, store, now, ticks, handed, stdout, response>>

\* proactive_checkin.py:126-135, scheduled_task.py:94-105: the result of
\* the output of a process that exited 0
ScriptResult(raw) ==
  CASE raw.kind = "text" -> RunnerResult("result", TRUE)
    [] raw.kind = "array" -> RunnerResult("AttributeError", FALSE)
    [] OTHER ->
         LET result == PickResult(raw)
             decoded == IF IsStr(result) THEN json_loads(result) ELSE result
         IN
         CASE decoded.kind = "JSONDecodeError" -> RunnerResult("result", TRUE)
           [] decoded.kind = "number" -> RunnerResult("AttributeError", FALSE)
           [] OTHER ->
                RunnerResult("result", decoded.conversation_finished = "true")

\* proactive_checkin.py:120-123 and scheduled_task.py:91-92: a non-zero
\* exit is {"conversation_finished": True} for the check-in and a
\* RuntimeError for the scheduled task
RunnerExit(code, raw) ==
  /\ runner.pc = "waiting"
  /\ stdout' = raw
  /\ runner' =
       [runner EXCEPT
          !.pc = "done",
          !.result = IF code = 0 THEN ScriptResult(raw)
                     ELSE IF runner.script = "checkin"
                          THEN RunnerResult("result", TRUE)
                          ELSE RunnerResult("RuntimeError", FALSE)]
  /\ UNCHANGED <<proc, tasks, last, processing, user_locks, pending,
                 sessions, store, now, ticks, handed, response>>

\* the server after lifespan start-up, on empty data files
Started_up ==
  /\ proc = "up"
  /\ tasks = [m \in Msgs |-> <<>>]
  /\ last = NoEvent
  /\ processing = {}
  /\ user_locks = [u \in Users |-> "none"]
  /\ pending = [u \in Users |-> <<>>]
  /\ sessions = [u \in Users |-> NoSession]
  /\ store = [i \in Ids |-> NotStored]
  /\ now = 0
  /\ ticks = 0
  /\ handed = [m \in Msgs |-> 0]

Init ==
  /\ Started_up
  /\ stdout = NoOutput
  /\ response = NoResponse
  /\ runner = RunnerIdle

\* how a send through the platform ends for the dispatcher: an id
\* returned, or None for a send that failed
SendResults == {None, "O1"}

\* replies that carry the session id S1
RepliesS1 == {out \in Replies : out.sid = "S1"}

\* the messages of the dispatch specification: text, image and audio
DispatchMsgs == {"A1", "A2", "A3", "A4", "B1"}

\* The dispatch pipeline: any number of deliveries and redeliveries of the
\* text, image and audio messages of two users, every handler step, the
\* restart; the clock is not advanced.
Next ==
  \/ \E m \in DispatchMsgs, cli \in BOOLEAN : Deliver(m, cli)
  \/ \E mk \in TaskIds, cli \in BOOLEAN : DownloadOK(mk[1], mk[2], cli)
  \/ \E mk \in TaskIds : DownloadFail(mk[1], mk[2])
  \/ \E mk \in TaskIds, id \in SendResults : ApologySent(mk[1], mk[2], id)
  \/ \E mk \in TaskIds : RunFail(mk[1], mk[2])
  \/ \E mk \in TaskIds, out \in RepliesS1, cli \in BOOLEAN :
        RunOK(mk[1], mk[2], out, cli)
  \/ SupervisorRestart

Spec == Init /\ [][Next]_vars

\* the messages of the session specification: text messages of two users
SessionMsgs == {"A1", "A2", "B1"}

\* replies that ask for no restart
RepliesNoRestart == {out \in Replies : ~out.code_changes}

\* The session registry under the dispatcher: text messages, every reply
\* that asks for no restart (either token or none, finished or not), and
\* the clock.
NextSession ==
  \/ \E m \in SessionMsgs, cli \in BOOLEAN : Deliver(m, cli)
  \/ \E mk \in TaskIds, id \in SendResults : ApologySent(mk[1], mk[2], id)
  \/ \E mk \in TaskIds, out \in RepliesNoRestart, cli \in BOOLEAN :
        RunOK(mk[1], mk[2], out, cli)
  \/ \E mk \in TaskIds : RunFail(mk[1], mk[2])
  \/ \E d \in ClockSteps : Tick(d)

SpecSession == Init /\ [][NextSession]_vars

\* the messages of the drain specification: two texts and an image of one
\* user
DrainMsgs == {"A1", "A2", "A3"}

\* replies under token S1 that ask for no restart
DrainReplies == {out \in RepliesNoRestart : out.sid = "S1"}

\* The drain loop with the clock: messages of one user queue up at
\* different times behind a running invocation and are drained.
NextDrain ==
  \/ \E m \in DrainMsgs, cli \in BOOLEAN : Deliver(m, cli)
  \/ \E mk \in TaskIds, cli \in BOOLEAN : DownloadOK(mk[1], mk[2], cli)
  \/ \E mk \in TaskIds, id \in SendResults : ApologySent(mk[1], mk[2], id)
  \/ \E mk \in TaskIds, out \in DrainReplies, cli \in BOOLEAN :
        RunOK(mk[1], mk[2], out, cli)
  \/ \E mk \in TaskIds : RunFail(mk[1], mk[2])
  \/ \E d \in ClockSteps : Tick(d)

SpecDrain == Init /\ [][NextDrain]_vars

\* the messages of the outbound specification: two texts and an image of
\* one user, a message of an unsupported kind of the other
OutboundMsgs == {"A1", "A2", "A3", "B2"}

\* Every way a handler ends and every message sent out: deliveries of these
\* messages, every handler step, the sends of the agent's send-message
\* tool, the restart.
NextOutbound ==
  \/ \E m \in OutboundMsgs, cli \in BOOLEAN : Deliver(m, cli)
  \/ \E mk \in TaskIds, cli \in BOOLEAN : DownloadOK(mk[1], mk[2], cli)
  \/ \E mk \in TaskIds : DownloadFail(mk[1], mk[2])
  \/ \E mk \in TaskIds, id \in OutIds : UnsupportedSent(mk[1], mk[2], id)
  \/ \E mk \in TaskIds : UnsupportedFail(mk[1], mk[2])
  \/ \E mk \in TaskIds, id \in SendResults : ApologySent(mk[1], mk[2], id)
  \/ \E mk \in TaskIds, id \in OutIds : ToolSend(mk[1], mk[2], "T1", id)
  \/ \E mk \in TaskIds : RunFail(mk[1], mk[2])
  \/ \E mk \in TaskIds, out \in RepliesS1, cli \in BOOLEAN :
        RunOK(mk[1], mk[2], out, cli)
  \/ SupervisorRestart

SpecOutbound == Init /\ [][NextOutbound]_vars

\* The parsing stage of ClaudeRunner.run on every output of an agent
\* process that exited 0.
InitParse ==
  /\ Started_up
  /\ stdout \in Outputs
  /\ response = NoResponse
  /\ runner = RunnerIdle

NextParse == Parse

SpecParse == InitParse /\ [][NextParse]_vars

\* the outputs the unattended runners are run on: the malformed ones and
\* the three shapes of every payload
RunnerOutputs ==
  {NotJson, JsonArray,
   Output("object", None, NoValue, Value("text", Absent, Absent),
          Absent, Absent),
   Output("object", None, NoValue, Value("scalar", Absent, Absent),
          Absent, Absent)}
  \cup {Inline(p, "S1") : p \in Payloads}
  \cup {Structured(p, "S1") : p \in Payloads}
  \cup {ResultString(p, "S1") : p \in Payloads}

\* The unattended runners: a start of either script, the agent running on,
\* its exit with either code on any of these outputs, the timeout.
NextRunner ==
  \/ \E script \in Scripts : RunnerStart(script)
  \/ \E d \in WaitSteps : RunnerWait(d)
  \/ RunnerTimeout
  \/ \E code \in ExitCodes, raw \in RunnerOutputs : RunnerExit(code, raw)

SpecRunner == Init /\ [][NextRunner]_vars

\* ------------------------------------------------------------------ claims

\* C1: for every user, at most one agent invocation (initial or drained) is
\* in flight in every reachable state.
C1_SingleFlight == \A u \in Users : Cardinality(InFlight(u)) <= 1

\* an invocation of u1 is in flight and two more messages of u1 came in
\* meanwhile
C1_Witness ==
  /\ Cardinality(InFlight("u1")) = 1
  /\ Len(pending["u1"]) = 2

\* C2: while a task for message id m is being processed, a second delivery
\* of m creates no second task, is rejected as an in-flight duplicate and
\* changes nothing else; so no id ever has two tasks.
C2_AdmitOnce ==
  [][/\ \A m \in Msgs :
          /\ m \in processing => Len(tasks'[m]) <= Len(tasks[m])
          /\ Len(tasks'[m]) <= 1
     /\ last'.outcome = "dup_inflight" =>
          UNCHANGED <<proc, tasks, processing, user_locks, pending, sessions,
                      store, now, ticks, handed>>]_vars

\* the image A3 is being downloaded by its one task, not yet archived, and
\* a second delivery of it has just been rejected as in flight
C2_Witness ==
  /\ last.outcome = "dup_inflight"
  /\ processing = {"A3"}
  /\ Len(tasks["A3"]) = 1
  /\ tasks["A3"][1].pc = "download"
  /\ store["A3"] = NotStored

\* C3: whatever the deliveries of a message id (concurrent, after the first
\* completed, after a restart), its content is passed to claude.run or put
\* in a pending queue at most once.
C3_HandedOnce == \A m \in Msgs : handed[m] <= 1

\* after a restart (no lock object exists yet, nothing in flight) a
\* redelivery of a message handled before the restart has been rejected
C3_Witness ==
  /\ proc = "up"
  /\ last.outcome = "dup_processed"
  /\ processing = {}
  /\ \A u \in Users : user_locks[u] = "none"
  /\ handed["A1"] = 1

\* C4: when an invocation of the gate holder ends while three messages of
\* its user wait in the pending queue, the holder goes on with one
\* follow-up invocation whose batch is exactly those three, in arrival
\* order, and the queue is empty.
C4_CoalescedFollowUp ==
  [][\A m \in Msgs :
       (/\ last'.ev \in {"reply", "fail"}
        /\ last'.msg = m
        /\ Len(pending[From(m)]) = 3)
       => /\ tasks'[m] # <<>>
          /\ tasks'[m][1].pc = "running"
          /\ tasks'[m][1].queued = pending[From(m)]
          /\ pending'[From(m)] = <<>>]_vars

\* C5: when an invocation of the gate holder fails while entries wait in the
\* user's pending queue, the queue is drained and handed to a next
\* invocation of that user.
C5_DrainAfterFailure ==
  [][\A m \in Msgs :
       (/\ last'.ev = "fail"
        /\ last'.msg = m
        /\ pending[From(m)] # <<>>)
       => /\ pending'[From(m)] = <<>>
          /\ \E n \in Msgs :
               /\ From(n) = From(m)
               /\ tasks'[n] # <<>>
               /\ tasks'[n][1].pc = "running"
               /\ tasks'[n][1].queued = pending[From(m)]]_vars

\* C10: when the gate cycle of a holder ends (its last invocation is over and
\* nothing is left to drain, or an invocation failed) and any invocation of
\* the cycle, this last one included, returned code_changes = true, the
\* process exits, with the user's pending queue empty.
C10_RestartAfterDrains ==
  [][\A m \in Msgs :
       (/\ proc = "up"
        /\ tasks[m] # <<>>
        /\ tasks[m][1].pc = "running"
        /\ \/ tasks[m][1].needs_restart
           \/ (last'.ev = "reply" /\ last'.msg = m /\ last'.reply.code_changes)
        /\ (tasks'[m] = <<>> \/ tasks'[m][1].pc # "running"))
       => /\ proc' = "exited"
          /\ pending'[From(m)] = <<>>]_vars

\* the task of message m has just started an agent invocation (its own or
\* a drained one); last.loaded is the record get_session_id loaded for it
Started(m) ==
  /\ last.msg = m
  /\ last.ev \in {"deliver", "downloaded", "reply"}
  /\ tasks[m] # <<>>
  /\ tasks[m][1].pc = "running"

\* C6 (as amended): a session whose last activity is at t is returned by
\* get_session_id at every time up to and including t + 1800 s and is
\* absent at every later time.
C6_ReadableThroughTimeout ==
  \A m \in Msgs :
    (Started(m) /\ last.loaded.session_id # None) =>
      /\ now <= last.loaded.last_activity + SESSION_TIMEOUT
           => tasks[m][1].session_id = last.loaded.session_id
      /\ now > last.loaded.last_activity + SESSION_TIMEOUT
           => tasks[m][1].session_id = None

\* C6 as claimed: returned strictly before t + 1800 s, absent from
\* t + 1800 s on.
C6_ExpiredAtTimeout ==
  \A m \in Msgs :
    (Started(m) /\ last.loaded.session_id # None) =>
      /\ now < last.loaded.last_activity + SESSION_TIMEOUT
           => tasks[m][1].session_id = last.loaded.session_id
      /\ now >= last.loaded.last_activity + SESSION_TIMEOUT
           => tasks[m][1].session_id = None

\* a read exactly 1800 s after the last activity returned the token
C6_Witness ==
  \E m \in Msgs :
    /\ Started(m)
    /\ last.loaded.session_id # None
    /\ now = last.loaded.last_activity + SESSION_TIMEOUT
    /\ tasks[m][1].session_id = last.loaded.session_id

\* C7: get_session_id returns the user's token iff a record exists and
\* now - last_activity <= SESSION_TIMEOUT, and then leaves the file as it
\* is; for a record with now - last_activity > SESSION_TIMEOUT it returns
\* none and the record is gone from the file.
C7_GetSessionId ==
  \A m \in Msgs :
    Started(m) =>
      LET sd == last.loaded
          ret == tasks[m][1].session_id
          valid == sd.session_id # None
                   /\ now - sd.last_activity <= SESSION_TIMEOUT
      IN /\ ret # None <=> valid
         /\ valid => (ret = sd.session_id /\ sessions[From(m)] = sd)
         /\ (sd.session_id # None /\ now - sd.last_activity > SESSION_TIMEOUT)
              => (ret = None /\ sessions[From(m)] = NoSession)

\* a read found a record older than the timeout, returned none and the
\* record is gone
C7_Witness ==
  \E m \in Msgs :
    /\ Started(m)
    /\ last.loaded.session_id # None
    /\ now - last.loaded.last_activity > SESSION_TIMEOUT
    /\ tasks[m][1].session_id = None
    /\ sessions[From(m)] = NoSession

\* C8: after a reply that carries a session id, the user's session is
\* deleted when the reply says conversation_finished, and is
\* {that id, last_activity = now} otherwise.
C8_SessionUpdate ==
  \A m \in Msgs :
    (last.ev = "reply" /\ last.msg = m /\ last.reply.sid # None) =>
      sessions[From(m)] =
        IF last.reply.finished THEN NoSession
        ELSE [session_id |-> last.reply.sid, last_activity |-> now]

\* A1, invoked without a session, was answered
\* {conversation_finished: false, session_id: S1} at a time after 0, and
\* the session of u1 is {S1, now}
C8_Witness ==
  /\ last.ev = "reply"
  /\ last.msg = "A1"
  /\ last.reply = [sid |-> "S1", finished |-> FALSE, code_changes |-> FALSE]
  /\ now > 0
  /\ sessions["u1"] = [session_id |-> "S1", last_activity |-> now]
  /\ store["A2"] = NotStored

\* C9: an invocation carries --resume T iff the user's record, at the
\* moment of the invocation, holds token T and is not older than the
\* timeout; otherwise it carries no resume argument.
C9_ResumeArgument ==
  \A m \in Msgs :
    Started(m) =>
      /\ \A T \in Tokens :
           tasks[m][1].resume = T <=>
             /\ last.loaded.session_id = T
             /\ now - last.loaded.last_activity <= SESSION_TIMEOUT
      /\ tasks[m][1].resume \in Tokens \cup {None}

\* A2 arrived 300 s after the invocation that stored S1 and is invoked
\* with --resume S1
C9_Witness ==
  /\ Started("A2")
  /\ last.ev = "deliver"
  /\ last.loaded.session_id = "S1"
  /\ now - last.loaded.last_activity = 300
  /\ tasks["A2"][1].resume = "S1"

\* C11: when an invocation returns code_changes = true while the user's
\* pending queue is empty, the process exits, and the user's gate has been
\* released by the time it exits.
C11_ExitAfterRelease ==
  [][\A m \in Msgs :
       (/\ last'.ev = "reply"
        /\ last'.msg = m
        /\ last'.reply.code_changes
        /\ pending[From(m)] = <<>>)
       => /\ proc' = "exited"
          /\ user_locks'[From(m)] = "free"]_vars

\* the first half of C11 alone: such a reply makes the process exit
C11_ExitOnCodeChanges ==
  [][\A m \in Msgs :
       (/\ last'.ev = "reply"
        /\ last'.msg = m
        /\ last'.reply.code_changes
        /\ pending[From(m)] = <<>>)
       => proc' = "exited"]_vars

\* C12: an unattended runner (check-in or scheduled task) is never found
\* waiting for its agent process more than 30 minutes after it spawned it.
C12_BoundedRun ==
  runner.pc = "waiting" => runner.elapsed <= timeout_seconds

\* the check-in half of C12: the check-in never waits past the timeout,
\* and when the timeout ended it the result is {conversation_finished: true}
C12_CheckinBounded ==
  /\ (runner.script = "checkin" /\ runner.pc = "waiting")
       => runner.elapsed <= timeout_seconds
  /\ runner.result.how = "killed"
       => /\ runner.script = "checkin"
          /\ runner.elapsed = timeout_seconds
          /\ runner.result.conversation_finished

C14_OutboundArchived ==
  (last.ev \in OutTexts /\ last.outcome # None) =>
     store[last.outcome] = [content |-> last.ev, sender |-> "jarvis"]

\* the tool half of C14: what the send-message tool sent is archived
C14_ToolArchived ==
  (last.ev = "T1" /\ last.outcome # None) =>
     store[last.outcome] = [content |-> "T1", sender |-> "jarvis"]

\* the (conversation_finished, code_changes) pair of a payload: a field that
\* is missing counts as false
Pair(p) == <<p.conversation_finished = "true", p.code_changes = "true">>

\* C15: for every payload, parsing its inline envelope, its envelope with
\* the payload under structured_output and its envelope with the payload
\* JSON-encoded under result gives a response, and in all three the same
\* pair: the payload's fields, false for a field the payload lacks.
C15_ThreeShapes ==
  \A p \in Payloads, sid \in {None, "S1"} :
    (/\ response # NoResponse
     /\ stdout \in {Inline(p, sid), Structured(p, sid), ResultString(p, sid)})
    => /\ response.raised = None
       /\ <<response.conversation_finished, response.code_changes>> = Pair(p)

\* the payload {conversation_finished: true}, without code_changes, came
\* JSON-encoded under result and was parsed as (true, false)
C15_Witness ==
  /\ stdout = ResultString(Value("object", "true", Absent), "S1")
  /\ response = Response(None, TRUE, FALSE, "S1")

\* C16: no output of an agent process that exited 0 makes ClaudeRunner.run
\* raise, and output that is malformed (not JSON, JSON that is no object, a
\* result string that is not JSON or not an object) gives
\* conversation_finished = false and code_changes = false.
C16_NeverRaises ==
  response # NoResponse =>
    /\ response.raised = None
    /\ (\/ stdout.kind \in {"text", "array"}
        \/ (/\ ~Truthy(stdout.structured_output)
            /\ stdout.result.kind \in {"text", "scalar"}))
       => (~response.conversation_finished /\ ~response.code_changes)

\* the part of C16 that holds: a result string that is no JSON document
\* degrades to (false, false) without raising
C16_BadResultString ==
  (/\ response # NoResponse
   /\ stdout.kind = "object"
   /\ ~Truthy(stdout.structured_output)
   /\ stdout.result.kind = "text")
  => response = Response(None, FALSE, FALSE, stdout.session_id)

\* C17: a failure while a message is processed (download, missing agent
\* executable, non-zero exit or unparseable output of the agent) puts the
\* handler on the apology to that message's user, after which, as long as
\* the process lives, it only returns; and an agent invocation for a message starts only out of a
\* delivery of that message, never by itself after a failure.
C17_ApologyNoRetry ==
  [][\A m \in Msgs :
       /\ (last'.ev = "fail" /\ last'.msg = m)
            => (tasks'[m] # <<>> /\ tasks'[m][1].pc = "apology")
       /\ (tasks[m] # <<>> /\ tasks'[m] # <<>>
           /\ tasks[m][1].pc = "download"
           /\ tasks'[m][1].pc \notin {"download", "running"})
            => tasks'[m][1].pc = "apology"
       /\ (/\ tasks[m] # <<>>
           /\ tasks[m][1].pc = "apology"
           /\ proc = "up" /\ proc' = "up")
            => \/ tasks'[m] = tasks[m]
               \/ /\ tasks'[m] = <<>>
                  /\ last'.ev = "oops"
                  /\ last'.msg = m
                  /\ handed'[m] = handed[m]
       /\ (/\ tasks'[m] # <<>>
           /\ tasks'[m][1].pc = "running"
           /\ ~(tasks[m] # <<>> /\ tasks[m][1].pc = "running"))
            => (last'.ev \in {"deliver", "downloaded"} /\ last'.msg = m)]_vars

\* the agent run for A1 failed while A2 waited, and the apology for A1 has
\* been sent: the handler of A1 is gone, A1 was handed over once
C17_Witness ==
  /\ last.ev = "oops"
  /\ last.msg = "A1"
  /\ last.outcome = "O1"
  /\ tasks["A1"] = <<>>
  /\ handed["A1"] = 1
  /\ Len(pending["u1"]) = 1
  /\ user_locks["u1"] = "free"

\* C18: an admitted message that reaches the gate decision while its own
\* user's gate is free starts its invocation (or fails to find the agent
\* executable) whatever the gates of other users, and is not queued; this
\* step and a failure in a user's cycle leave the gate, the queue, the
\* session and the handlers of every other user as they are.
C18_IndependentGates ==
  [][\A m \in Msgs :
       /\ (/\ last'.msg = m
           /\ \/ last'.ev = "downloaded"
              \/ last'.ev = "deliver" /\ Type(m) = "text"
           /\ user_locks[From(m)] # "held")
            => /\ tasks'[m] # <<>>
               /\ tasks'[m][1].pc \in {"running", "apology"}
               /\ tasks'[m][1].pc = "running"
                    => user_locks'[From(m)] = "held"
               /\ pending' = pending
       /\ (last'.msg = m /\ last'.ev \in {"deliver", "downloaded", "fail"})
            => \A u \in Users \ {From(m)} :
                 /\ user_locks'[u] = user_locks[u]
                 /\ pending'[u] = pending[u]
                 /\ sessions'[u] = sessions[u]
                 /\ \A n \in Msgs : From(n) = u => tasks'[n] = tasks[n]]_vars

\* B1 has just started its invocation while u1's gate is held by A1 with
\* A2 waiting behind it
C18_Witness ==
  /\ last.ev = "deliver"
  /\ last.msg = "B1"
  /\ InFlight("u1") = {<<"A1", 1>>}
  /\ InFlight("u2") = {<<"B1", 1>>}
  /\ Len(pending["u1"]) = 1

\* C19: a message that reaches the gate decision while its user's gate is
\* held is appended to that user's queue in the same step, its handler has
\* returned, and the invocation in flight, the gate and the sessions are as
\* they were.
C19_EnqueueAndReturn ==
  [][\A m \in Msgs :
       (/\ last'.msg = m
        /\ \/ last'.ev = "downloaded"
           \/ last'.ev = "deliver" /\ Type(m) = "text"
        /\ user_locks[From(m)] = "held")
       => /\ Len(pending'[From(m)]) = Len(pending[From(m)]) + 1
          /\ SubSeq(pending'[From(m)], 1, Len(pending[From(m)]))
               = pending[From(m)]
          /\ pending'[From(m)][Len(pending'[From(m)])].message = m
          /\ tasks'[m] = <<>>
          /\ m \notin processing'
          /\ \A n \in Msgs \ {m} : tasks'[n] = tasks[n]
          /\ user_locks' = user_locks
          /\ sessions' = sessions]_vars

\* the image A3, downloaded while A1 is with the agent and A2 already
\* waits, has been put behind A2 and its handler has returned
C19_Witness ==
  /\ last.ev = "downloaded"
  /\ last.msg = "A3"
  /\ tasks["A3"] = <<>>
  /\ InFlight("u1") = {<<"A1", 1>>}
  /\ Len(pending["u1"]) = 2
  /\ pending["u1"][1].message = "A2"
  /\ pending["u1"][2].message = "A3"

\* C20: a drained invocation carries the text of every queued entry, the
\* image file of every queued image and the voice annotation of every
\* queued voice message.
C20_DrainCarriesMedia ==
  \A mk \in TaskIds :
    LET me == tasks[mk[1]][mk[2]]
        args == claude_run_args(mk[1], me.queued)
    IN (me.pc = "running" /\ me.queued # <<>>) =>
         /\ Len(args.message) = Len(me.queued)
         /\ \A i \in 1..Len(me.queued) :
              /\ args.message[i] = me.queued[i].message
              /\ me.queued[i].image_path
                   => me.queued[i].message \in args.image_path
              /\ me.queued[i].is_voice => args.is_voice

\* the text half of C20: the drained invocation lists the text of every
\* queued entry, in order
C20_DrainCarriesText ==
  \A mk \in TaskIds :
    LET me == tasks[mk[1]][mk[2]]
        args == claude_run_args(mk[1], me.queued)
    IN (me.pc = "running" /\ me.queued # <<>>) =>
         args.message = [i \in 1..Len(me.queued) |-> me.queued[i].message]

\* C21: B2, a message of an unsupported kind, is never passed to the agent
\* and never put in a pending queue; its handler only sends (the notice,
\* or the generic apology when that send fails), and when it returns B2 is
\* out of the in-flight set.
C21_UnsupportedKind ==
  [][/\ handed'["B2"] = 0
     /\ \A u \in Users : \A i \in 1..Len(pending'[u]) :
          pending'[u][i].message # "B2"
     /\ tasks'["B2"] # <<>>
          => tasks'["B2"][1].pc \in {"unsupported", "apology"}
     /\ (tasks["B2"] # <<>> /\ tasks'["B2"] = <<>> /\ proc = "up")
          => /\ last'.ev \in {"sorry", "oops"}
             /\ last'.msg = "B2"
             /\ "B2" \notin processing']_vars

\* the notice for B2 went out under O2 and the handler of B2 is gone: B2
\* was never handed over, nothing is queued, nothing is in flight
C21_Witness ==
  /\ last.ev = "sorry"
  /\ last.msg = "B2"
  /\ last.outcome = "O2"
  /\ tasks["B2"] = <<>>
  /\ handed["B2"] = 0
  /\ processing = {}
  /\ pending["u2"] = <<>>
  /\ InFlight("u2") = {}

\* C22: in every reachable state in which a user's gate is free (or does
\* not exist yet), that user's pending queue is empty.
C22_DrainBeforeRelease ==
  \A u \in Users : user_locks[u] # "held" => pending[u] = <<>>

\* the part of C22 that holds: the step in which a completed invocation
\* releases the gate leaves the queue empty
C22_ReleaseAfterReply ==
  [][\A m \in Msgs :
       (/\ last'.ev = "reply"
        /\ last'.msg = m
        /\ user_locks'[From(m)] = "free")
       => pending'[From(m)] = <<>>]_vars

\* C25: when the process has exited for a restart, no user has an agent
\* invocation in flight and no user's pending queue holds an entry.
C25_ExitAfterAllDrains ==
  proc = "exited" =>
    \A u \in Users : InFlight(u) = {} /\ pending[u] = <<>>

\* the part of C25 that holds: the queue of the user whose handler exits is
\* empty and that handler has no invocation in flight
C25_ExitAfterOwnDrains ==
  \A mk \in TaskIds :
    (proc = "exited" /\ tasks[mk[1]][mk[2]].pc = "exit") =>
       /\ pending[From(mk[1])] = <<>>
       /\ InFlight(From(mk[1])) = {}

\* the messages a batch lists
Listed(queued) == {queued[i].message : i \in 1..Len(queued)}

\* C23: a drain step (a reply arriving while the queue is not empty) takes
\* the whole queue, leaving it empty, and passes it to one call of
\* claude.run (which is running afterwards, or has failed at the lookup of
\* the executable) whose prompt is the busy header followed by the entries
\* of the queue, each with its enqueue timestamp, in enqueue order; no
\* entry of the batch was in the batch before it; steps that are not drain
\* steps only append to a queue.
C23_DrainStep ==
  [][\A u \in Users :
       /\ \A mk \in TaskIds :
            LET m == mk[1]
                k == mk[2]
            IN (/\ From(m) = u
                /\ tasks[m][k].pc = "running"
                /\ last'.ev = "reply"
                /\ last'.msg = m
                /\ pending[u] # <<>>)
               => /\ pending'[u] = <<>>
                  /\ tasks'[m][k].pc \in {"running", "apology"}
                  /\ InFlight(u)' \subseteq {mk}
                  /\ Listed(tasks[m][k].queued) \cap Listed(pending[u]) = {}
                  /\ tasks'[m][k].pc = "running" =>
                       /\ tasks'[m][k].queued = pending[u]
                       /\ combined_prompt(tasks'[m][k].queued) =
                            [header |->
                               "[Messages received while you were working]",
                             lines |->
                               [i \in 1..Len(pending[u]) |->
                                  <<pending[u][i].timestamp,
                                    pending[u][i].message>>]]
       /\ (last'.ev # "reply" /\ proc = "up")
            => /\ Len(pending'[u]) >= Len(pending[u])
               /\ SubSeq(pending'[u], 1, Len(pending[u])) = pending[u]]_vars

\* A1's handler has drained A2, queued at time 1, and the image A3, queued
\* later, as one batch, whose invocation is running
C23_Witness ==
  /\ last.ev = "reply"
  /\ last.msg = "A1"
  /\ tasks["A1"] # <<>>
  /\ tasks["A1"][1].pc = "running"
  /\ Len(tasks["A1"][1].queued) = 2
  /\ tasks["A1"][1].queued[1].message = "A2"
  /\ tasks["A1"][1].queued[1].timestamp = 1
  /\ tasks["A1"][1].queued[2].message = "A3"
  /\ tasks["A1"][1].queued[2].timestamp > 1
  /\ pending["u1"] = <<>>

\* C24: every change of the session record of user u, and every record
\* put in the archive for a message of u, is written by a handler that
\* holds u's gate: before the step, or acquired in the step of the write.
C24_WritesUnderGate ==
  [][/\ \A u \in Users :
          sessions'[u] # sessions[u]
            => /\ last'.msg # None
               /\ From(last'.msg) = u
               /\ \E mk \in TaskIds :
                    /\ mk[1] = last'.msg
                    /\ \/ tasks[mk[1]][mk[2]].pc = "running"
                       \/ /\ mk[2] <= Len(tasks'[mk[1]])
                          /\ tasks'[mk[1]][mk[2]].pc = "running"
     /\ \A m \in Msgs :
          store'[m] # store[m]
            => \E k \in 1..Len(tasks'[m]) :
                 tasks'[m][k].pc \in {"running", "apology"}]_vars

\* the half of C24 that holds: a session record of u changes only in a step
\* of the handler that holds u's gate before the step (a reply) or that
\* has acquired it when the step ends (the start of an invocation)
C24_SessionWritesUnderGate ==
  [][\A u \in Users :
       sessions'[u] # sessions[u]
         => /\ last'.msg # None
            /\ From(last'.msg) = u
            /\ \/ /\ last'.ev = "reply"
                  /\ user_locks[u] = "held"
                  /\ \E mk \in InFlight(u) : mk[1] = last'.msg
               \/ /\ last'.ev \in {"deliver", "downloaded"}
                  /\ user_locks'[u] = "held"
                  /\ \E mk \in InFlight(u)' : mk[1] = last'.msg]_vars

\* C26: a step changes the session record of user u only when it is a step
\* of a handler of u: whatever the handlers of other users do, in any
\* interleaving, u's record stays as it is.
C26_SessionsIndependent ==
  [][\A u \in Users :
       sessions'[u] # sessions[u]
         => (last'.msg # None /\ From(last'.msg) = u)]_vars

\* both users hold a session, u1's older than u2's, and the last step was
\* u2's reply writing u2's record while an invocation of u1 is running
C26_Witness ==
  /\ last.ev = "reply"
  /\ last.msg = "B1"
  /\ sessions["u1"].session_id # None
  /\ sessions["u2"].session_id # None
  /\ sessions["u2"].last_activity = now
  /\ sessions["u1"].last_activity < now
  /\ InFlight("u1") # {}

\* C27: while the process stays up, the step in which u's running
\* invocation ends with no next one started frees u's lock; a lock is held
\* only while an invocation of its user is running; and a message that
\* reaches the lock decision while no invocation of u is running is not
\* queued.
C27_GateFreedAtEnd ==
  [][\A u \in Users :
       /\ (proc = "up" /\ proc' = "up" /\ InFlight(u) # {}
           /\ InFlight(u)' = {})
            => user_locks'[u] = "free"
       /\ (proc' = "up" /\ user_locks'[u] = "held") => InFlight(u)' # {}
       /\ \A m \in Msgs :
            (/\ From(m) = u
             /\ proc = "up"
             /\ InFlight(u) = {}
             /\ handed'[m] = handed[m] + 1)
            => /\ pending'[u] = pending[u]
               /\ tasks'[m] # <<>>
               /\ \E k \in 1..Len(tasks'[m]) :
                    tasks'[m][k].pc \in {"running", "apology"}]_vars

\* A1's invocation has failed, its handler is still sending the apology,
\* and A2, delivered after that, has acquired the lock and is running
C27_Witness ==
  /\ last.ev = "deliver"
  /\ last.msg = "A2"
  /\ tasks["A1"] # <<>>
  /\ tasks["A1"][1].pc = "apology"
  /\ handed["A1"] = 1
  /\ tasks["A2"] # <<>>
  /\ tasks["A2"][1].pc = "running"
  /\ user_locks["u1"] = "held"
  /\ pending["u1"] = <<>>

\* C28: the step in which an invocation fails leaves the sessions file as
\* it is, and the step that starts an invocation on a message changes at
\* most the record of the message's user, and that only by deleting a
\* record that has expired; an invocation that fails at the lookup of the
\* executable changes nothing.
C28_FailureKeepsSessions ==
  [][/\ last'.ev = "fail" => sessions' = sessions
     /\ \A m \in Msgs :
          (last'.ev \in {"deliver", "downloaded"} /\ last'.msg = m)
          => /\ \A v \in Users \ {From(m)} : sessions'[v] = sessions[v]
             /\ \/ sessions'[From(m)] = sessions[From(m)]
                \/ /\ sessions'[From(m)] = NoSession
                   /\ sessions[From(m)].session_id # None
                   /\ now - sessions[From(m)].last_activity > SESSION_TIMEOUT
                   /\ \E k \in 1..Len(tasks'[m]) :
                        tasks'[m][k].pc = "running"]_vars

\* A2's invocation, which resumed the session that A1's reply left, has
\* failed some time later: the record still has the token and the time of
\* A1's reply
C28_Witness ==
  /\ last.ev = "fail"
  /\ last.msg = "A2"
  /\ sessions["u1"].session_id = "S1"
  /\ sessions["u1"].last_activity < now
  /\ tasks["A2"] # <<>>
  /\ tasks["A2"][1].pc = "apology"

\* an invocation started on an expired record deleted it and then failed:
\* the record stays deleted
C28_WitnessExpired ==
  /\ last.ev = "fail"
  /\ last.msg = "A2"
  /\ now > SESSION_TIMEOUT
  /\ sessions["u1"] = NoSession
  /\ handed["A1"] = 1
  /\ store["A1"] # NotStored

====
